---- MODULE Spec2Model ----
(***************************************************************************)
(* A model of aws_utils/s3.py: the memoized client accessor, the URL       *)
(* parser and builders, the paginated object lister (a generator), the     *)
(* conditional copier and the directory uploader.  The operations share    *)
(* no state, so each has its own specification over its own variables      *)
(* (SpecIter, SpecSync, SpecUrl, SpecUpload, SpecClient); the variables of  *)
(* the other operations stay at their initial values.                      *)
(***************************************************************************)
EXTENDS Integers, Sequences, FiniteSets, TLC

VARIABLES
    \* iter_keys (one generator object and its consumer)
    ikPc,        \* "created" | "request" | "for" | "yielded" | "after" | "ended"
    ikRunning,   \* TRUE while the consumer's next() is executing the generator
    ikArgs,      \* [bucket, prefix, max_keys] (max_keys 0 stands for None)
    kwargs,      \* the request arguments: [Bucket, Prefix, ContinuationToken]
    key_count,   \* the generator's local key_count
    resp,        \* the page being iterated
    ikIdx,       \* how many records of resp["Contents"] the for loop has taken
    requests,    \* the list_objects_v2 calls made, each with the pulls and
                 \* records emitted so far when it was made
    responses,   \* the pages the service returned, in order
    emitted,     \* the records delivered to the consumer, in order
    pulls,       \* how many times the consumer has called next()
    \* sync_object
    soPc,        \* "start" | "head_src" | "copy" | "returned" | "raised"
    soArgs,      \* [src, dest]: the two object references
    soDest,      \* outcome of head_object(**dest)
    soSrc,       \* outcome of head_object(**src)
    soCalls,     \* the client calls made, in order
    soRaised,    \* where the propagated exception was raised ("none" if none)
    \* parse_s3_url / make_s3_url / make_https_url
    urlPc,       \* "input" | "built" | "parsed"
    urlIn,       \* [bucket, key, region] given to a builder (empty if parsed directly)
    urlBuilder,  \* "none" | "s3" | "https"
    url,         \* the URL, a sequence of characters
    urlOut,      \* the result of parse_s3_url
    \* upload_dir
    udPc,        \* "walk" | "files" | "shutdown" | "return" | "returned"
    udArgs,      \* [source_path, bucket, prefix]
    udWalked,    \* the entries os.walk has yielded: [root, rel, files]
    udFileIdx,   \* how many files of the current entry have been submitted
    udCalls,     \* the transfer manager calls made, in order
    \* _get_client
    gcPc,        \* per thread: "idle" | "miss" | "built"
    gcCache,     \* the lru_cache entry for the key (): <<>> or an instance
    gcBuilt,     \* how many clients boto3.client("s3") has constructed
    gcLocal,     \* per thread: the instance its running call constructed
    gcDone,      \* TRUE once some _get_client call has returned
    gcCalls,     \* the completed operations (a set of records)
    gcLeft       \* per thread: how many operations it may still start

ikVars == <<ikPc, ikRunning, ikArgs, kwargs, key_count, resp, ikIdx, requests,
            responses, emitted, pulls>>
soVars == <<soPc, soArgs, soDest, soSrc, soCalls, soRaised>>
urlVars == <<urlPc, urlIn, urlBuilder, url, urlOut>>
udVars == <<udPc, udArgs, udWalked, udFileIdx, udCalls>>
gcVars == <<gcPc, gcCache, gcBuilt, gcLocal, gcDone, gcCalls, gcLeft>>
vars == <<ikVars, soVars, urlVars, udVars, gcVars>>
\* what each operation leaves alone: the variables of the others
ikOthers == <<soVars, urlVars, udVars, gcVars>>
soOthers == <<ikVars, urlVars, udVars, gcVars>>
urlOthers == <<ikVars, soVars, udVars, gcVars>>
udOthers == <<ikVars, soVars, urlVars, gcVars>>
gcOthers == <<ikVars, soVars, urlVars, udVars>>

(***************************************************************************)
(* Bounds of the model.                                                    *)
(***************************************************************************)
MaxPages == 3       \* pages the service returns before it must end the listing
MaxPageLen == 2     \* records in one page's Contents
MaxKeysArg == 3     \* largest max_keys tried
MaxTime == 2        \* LastModified timestamps are 0..MaxTime
MaxDirs == 2        \* entries os.walk yields
MaxFiles == 2       \* files in one directory
NThreads == 2       \* threads calling the client accessor
MaxOps == 2         \* operations one thread starts

Max(a, b) == IF a >= b THEN a ELSE b

(***************************************************************************)
(* iter_keys                                                               *)
(***************************************************************************)
NoToken == <<>>
NoPage == [KeyCount |-> 0, IsTruncated |-> FALSE, Contents |-> <<>>,
           NextContinuationToken |-> NoToken]

Buckets == {"test", "other"}
Prefixes == {"images/"}
MaxKeysArgs == 0 .. MaxKeysArg

\* The pages the service may return as its n-th response: n records (each
\* record is <<n, i>>, so that all records are distinct), a KeyCount that is
\* zero or positive, a truncation flag, and a token naming the next page.
\* The service ends every listing: its MaxPages-th page is a final one.
Page(n, len, zero, trunc) ==
    [KeyCount |-> IF zero THEN 0 ELSE Max(len, 1),
     IsTruncated |-> trunc,
     Contents |-> [i \in 1 .. len |-> <<n, i>>],
     NextContinuationToken |-> IF trunc THEN <<"token", n>> ELSE NoToken]

IsFinal(p) == p.KeyCount = 0 \/ ~p.IsTruncated

ServicePages(n) ==
    {p \in {Page(n, len, zero, trunc) :
                len \in 0 .. MaxPageLen, zero \in BOOLEAN, trunc \in BOOLEAN} :
        n >= MaxPages => IsFinal(p)}

IkInit ==
    /\ ikPc = "created"
    /\ ikRunning = FALSE
    /\ ikArgs \in [bucket : Buckets, prefix : Prefixes, max_keys : MaxKeysArgs]
    /\ kwargs = [Bucket |-> ikArgs.bucket, Prefix |-> ikArgs.prefix,
                 ContinuationToken |-> NoToken]
    /\ key_count = 0
    /\ resp = NoPage
    /\ ikIdx = 0
    /\ requests = <<>>
    /\ responses = <<>>
    /\ emitted = <<>>
    /\ pulls = 0

\* if resp["KeyCount"] == 0: break
PageIsEmpty(r) == r.KeyCount = 0

\* if max_keys and key_count >= max_keys: break
CapReached(max_keys, count) == max_keys # 0 /\ count >= max_keys

\* if resp["IsTruncated"]: ... else: break
HasMoreAlways(r) == TRUE
HasMore(r) == r.IsTruncated

\* kwargs["ContinuationToken"] = resp["NextContinuationToken"]
KeepKwargs(kw, r) == kw
NextKwargs(kw, r) == [kw EXCEPT !.ContinuationToken = r.NextContinuationToken]

\* The consumer calls next() on the generator: the body runs from where it
\* was suspended (the first call starts it at the top of the while loop).
IkPull ==
    /\ UNCHANGED ikOthers
    /\ ~ikRunning
    /\ ikPc \in {"created", "yielded"}
    /\ ikRunning' = TRUE
    /\ pulls' = pulls + 1
    /\ ikPc' = IF ikPc = "created" THEN "request" ELSE "yielded"
    /\ UNCHANGED <<ikArgs, kwargs, key_count, resp, ikIdx, requests, responses,
                   emitted>>

\* resp = client.list_objects_v2(**kwargs); if resp["KeyCount"] == 0: break
IkRequest ==
    /\ UNCHANGED ikOthers
    /\ ikRunning
    /\ ikPc = "request"
    /\ \E p \in ServicePages(Len(responses) + 1) :
        /\ requests' = Append(requests,
               [kwargs |-> kwargs, pulls |-> pulls, emitted |-> Len(emitted)])
        /\ responses' = Append(responses, p)
        /\ resp' = p
        /\ ikIdx' = 0
        /\ IF PageIsEmpty(p)
           THEN ikPc' = "ended" /\ ikRunning' = FALSE
           ELSE ikPc' = "for" /\ ikRunning' = TRUE
    /\ UNCHANGED <<ikArgs, kwargs, key_count, emitted, pulls>>

\* for obj in resp["Contents"]: key_count += 1; yield obj
IkFor ==
    /\ UNCHANGED ikOthers
    /\ ikRunning
    /\ ikPc = "for"
    /\ IF ikIdx < Len(resp.Contents)
       THEN /\ ikIdx' = ikIdx + 1
            /\ key_count' = key_count + 1
            /\ emitted' = Append(emitted, resp.Contents[ikIdx + 1])
            /\ ikPc' = "yielded"
            /\ ikRunning' = FALSE
       ELSE /\ ikPc' = "after"
            /\ UNCHANGED <<ikIdx, key_count, emitted, ikRunning>>
    /\ UNCHANGED <<ikArgs, kwargs, resp, requests, responses, pulls>>

\* resumed after the yield: if max_keys and key_count >= max_keys: break
\* (the break leaves the for loop only)
IkAfterYield ==
    /\ UNCHANGED ikOthers
    /\ ikRunning
    /\ ikPc = "yielded"
    /\ ikPc' = IF CapReached(ikArgs.max_keys, key_count) THEN "after" ELSE "for"
    /\ UNCHANGED <<ikRunning, ikArgs, kwargs, key_count, resp, ikIdx, requests,
                   responses, emitted, pulls>>

\* if resp["IsTruncated"]: kwargs[...] = resp[...]  else: break
IkAfterFor ==
    /\ UNCHANGED ikOthers
    /\ ikRunning
    /\ ikPc = "after"
    /\ IF HasMore(resp)
       THEN /\ kwargs' = NextKwargs(kwargs, resp)
            /\ ikPc' = "request"
            /\ UNCHANGED ikRunning
       ELSE /\ ikPc' = "ended"
            /\ ikRunning' = FALSE
            /\ UNCHANGED kwargs
    /\ UNCHANGED <<ikArgs, key_count, resp, ikIdx, requests, responses, emitted,
                   pulls>>

IkNext == IkPull \/ IkRequest \/ IkFor \/ IkAfterYield \/ IkAfterFor

(***************************************************************************)
(* sync_object                                                             *)
(***************************************************************************)
Refs == [Bucket : {"src", "dest"}, Key : {"item.png", "other.png"}]
NoRef == [Bucket |-> "", Key |-> ""]

\* What a head_object call can do: return the metadata, raise a ClientError
\* (the service answered with an error: 404 not found, 403 forbidden), or
\* raise an exception that is not a ClientError (the endpoint was not reached).
HeadOutcomes ==
    {[kind |-> "ok", code |-> "200", LastModified |-> t] : t \in 0 .. MaxTime}
    \cup {[kind |-> "ClientError", code |-> c, LastModified |-> -1] :
            c \in {"404", "403"}}
    \cup {[kind |-> "EndpointConnectionError", code |-> "", LastModified |-> -1]}
NoOutcome == [kind |-> "none", code |-> "", LastModified |-> -1]

SoInit ==
    /\ soPc = "start"
    /\ soArgs \in [src : Refs, dest : Refs]
    /\ soDest = NoOutcome
    /\ soSrc = NoOutcome
    /\ soCalls = <<>>
    /\ soRaised = "none"

\* except ClientError: pass
CaughtOnlyNotFound(o) == o.kind = "ClientError" /\ o.code = "404"
Caught(o) == o.kind = "ClientError"

\* if src_last_modified <= dest_last_modified: return
SrcNotNewerStrict(s, d) == s < d
SrcNotNewer(s, d) == s <= d

HeadCall(ref) == [op |-> "head_object", target |-> ref, CopySource |-> NoRef]
\* client.copy(CopySource=src, **dest)
CopyCall(src, dest) == [op |-> "copy", target |-> dest, CopySource |-> src]

\* try: resp = client.head_object(**dest) ... except ClientError: pass
SoHeadDest ==
    /\ UNCHANGED soOthers
    /\ soPc = "start"
    /\ \E o \in HeadOutcomes :
        /\ soDest' = o
        /\ soCalls' = Append(soCalls, HeadCall(soArgs.dest))
        /\ IF o.kind = "ok"
           THEN soPc' = "head_src" /\ UNCHANGED soRaised
           ELSE IF Caught(o)
                THEN soPc' = "copy" /\ UNCHANGED soRaised
                ELSE soPc' = "raised" /\ soRaised' = "head_dest"
    /\ UNCHANGED <<soArgs, soSrc>>

\* else: resp = client.head_object(**src); compare; maybe return
SoHeadSrc ==
    /\ UNCHANGED soOthers
    /\ soPc = "head_src"
    /\ \E o \in HeadOutcomes :
        /\ soSrc' = o
        /\ soCalls' = Append(soCalls, HeadCall(soArgs.src))
        /\ IF o.kind = "ok"
           THEN /\ soPc' = IF SrcNotNewer(o.LastModified, soDest.LastModified)
                           THEN "returned" ELSE "copy"
                /\ UNCHANGED soRaised
           ELSE soPc' = "raised" /\ soRaised' = "head_src"
    /\ UNCHANGED <<soArgs, soDest>>

\* client.copy(CopySource=src, **dest): it returns or raises
SoCopy ==
    /\ UNCHANGED soOthers
    /\ soPc = "copy"
    /\ soCalls' = Append(soCalls, CopyCall(soArgs.src, soArgs.dest))
    /\ \E ok \in BOOLEAN :
        IF ok THEN soPc' = "returned" /\ UNCHANGED soRaised
              ELSE soPc' = "raised" /\ soRaised' = "copy"
    /\ UNCHANGED <<soArgs, soDest, soSrc>>

SoNext == SoHeadDest \/ SoHeadSrc \/ SoCopy

(***************************************************************************)
(* parse_s3_url, make_s3_url, make_https_url.  A string is the sequence of *)
(* its characters.                                                         *)
(***************************************************************************)
SchemeS3 == <<"s", "3">>
SchemeHttps == <<"h", "t", "t", "p", "s">>
DotS3Dot == <<".", "s", "3", ".">>
DotS3AmazonawsCom ==
    <<".", "s", "3", ".", "a", "m", "a", "z", "o", "n", "a", "w", "s", ".", "c", "o", "m">>
DotAmazonawsCom ==
    <<".", "a", "m", "a", "z", "o", "n", "a", "w", "s", ".", "c", "o", "m">>
S3Dash == <<"s", "3", "-">>

LowerCase ==
    {"a", "b", "c", "d", "e", "f", "g", "h", "i", "j", "k", "l", "m",
     "n", "o", "p", "q", "r", "s", "t", "u", "v", "w", "x", "y", "z"}
UpperCase == {"S", "H", "T", "P"}
DigitChars == {"0", "1", "2", "3", "4", "5", "6", "7", "8", "9"}
\* urllib.parse.scheme_chars
SchemeChars == LowerCase \cup UpperCase \cup DigitChars \cup {"+", "-", "."}

\* str.lower(), on the characters the inputs use
LowerChar(c) ==
    CASE c = "S" -> "s" [] c = "H" -> "h" [] c = "T" -> "t" [] c = "P" -> "p"
      [] OTHER -> c
Lower(s) == [i \in 1 .. Len(s) |-> LowerChar(s[i])]

\* str.startswith, str.endswith
StartsWith(s, p) == Len(s) >= Len(p) /\ SubSeq(s, 1, Len(p)) = p
EndsWith(s, p) == Len(s) >= Len(p) /\ SubSeq(s, Len(s) - Len(p) + 1, Len(s)) = p

\* the first position of a character of cs in s, 0 when there is none
FirstOf(s, cs) ==
    LET hits == {i \in 1 .. Len(s) : s[i] \in cs}
    IN IF hits = {} THEN 0 ELSE CHOOSE i \in hits : \A j \in hits : i <= j

\* the last position where p occurs in s, 0 when it does not
LastOccurrence(s, p) ==
    LET hits == {i \in 1 .. Len(s) - Len(p) + 1 : SubSeq(s, i, i + Len(p) - 1) = p}
    IN IF hits = {} THEN 0 ELSE CHOOSE i \in hits : \A j \in hits : i >= j

Contains(s, p) == LastOccurrence(s, p) # 0

\* str.lstrip("/")
RECURSIVE LStripSlash(_)
LStripSlash(s) ==
    IF s # <<>> /\ Head(s) = "/" THEN LStripSlash(Tail(s)) ELSE s

\* str.split(c, maxsplit) for a one-character separator; maxsplit -1 is no limit
RECURSIVE Split(_, _, _)
Split(s, c, maxsplit) ==
    LET i == FirstOf(s, {c})
    IN IF maxsplit = 0 \/ i = 0
       THEN <<s>>
       ELSE <<SubSeq(s, 1, i - 1)>> \o Split(SubSeq(s, i + 1, Len(s)), c, maxsplit - 1)

\* str.rsplit(p, 1)[0]
RSplitHead(s, p) ==
    LET i == LastOccurrence(s, p)
    IN IF i = 0 THEN s ELSE SubSeq(s, 1, i - 1)

\* urllib.parse.urlsplit: the scheme is what precedes the first ":" when it is
\* a letter followed by scheme characters (lower-cased); after "//" the netloc
\* runs to the first of "/", "?", "#"; the fragment and the query are cut off
\* the rest, which is the path.
UrlSplit(u) ==
    LET i == FirstOf(u, {":"})
        hasScheme == /\ i > 1
                     /\ u[1] \in LowerCase \cup UpperCase
                     /\ \A j \in 1 .. i - 1 : u[j] \in SchemeChars
        rest == IF hasScheme THEN SubSeq(u, i + 1, Len(u)) ELSE u
        hasNetloc == Len(rest) >= 2 /\ rest[1] = "/" /\ rest[2] = "/"
        after == SubSeq(rest, 3, Len(rest))
        d == FirstOf(after, {"/", "?", "#"})
        tail == IF ~hasNetloc THEN rest
                ELSE IF d = 0 THEN <<>> ELSE SubSeq(after, d, Len(after))
        f == FirstOf(tail, {"#"})
        noFragment == IF f = 0 THEN tail ELSE SubSeq(tail, 1, f - 1)
        q == FirstOf(noFragment, {"?"})
    IN [scheme |-> IF hasScheme THEN Lower(SubSeq(u, 1, i - 1)) ELSE <<>>,
        netloc |-> IF ~hasNetloc THEN <<>>
                   ELSE IF d = 0 THEN after ELSE SubSeq(after, 1, d - 1),
        path |-> IF q = 0 THEN noFragment ELSE SubSeq(noFragment, 1, q - 1)]

S3UrlParts(bucket, key) ==
    [kind |-> "ok", bucket |-> bucket, key |-> key, message |-> "", url |-> <<>>]
\* raise ValueError(f"{url} is not a valid S3 URL")
InvalidUrl(u) ==
    [kind |-> "ValueError", bucket |-> <<>>, key |-> <<>>,
     message |-> "is not a valid S3 URL", url |-> u]
\* bucket, key = <a list of fewer than two items>
UnpackError ==
    [kind |-> "ValueError", bucket |-> <<>>, key |-> <<>>,
     message |-> "not enough values to unpack", url |-> <<>>]
NotParsed ==
    [kind |-> "none", bucket |-> <<>>, key |-> <<>>, message |-> "", url |-> <<>>]

\* the three https authority tests, in the order of the code
IsVirtualHosted(netloc) == EndsWith(netloc, DotS3AmazonawsCom)
IsRegionPath(netloc) == StartsWith(netloc, S3Dash) /\ EndsWith(netloc, DotAmazonawsCom)
IsGenericHost(netloc) == EndsWith(netloc, DotAmazonawsCom)

parse_s3_url(u) ==
    LET parts == UrlSplit(u)
        segs == Tail(Split(parts.path, "/", 2))
    IN IF parts.scheme \notin {SchemeHttps, SchemeS3} THEN InvalidUrl(u)
       ELSE IF parts.scheme = SchemeS3
            THEN S3UrlParts(parts.netloc, LStripSlash(parts.path))
       ELSE IF IsVirtualHosted(parts.netloc)
            THEN S3UrlParts(RSplitHead(parts.netloc, DotS3Dot), LStripSlash(parts.path))
       ELSE IF IsRegionPath(parts.netloc)
            THEN IF Len(segs) = 2
                 THEN S3UrlParts(segs[1], LStripSlash(segs[2]))
                 ELSE UnpackError
       ELSE IF IsGenericHost(parts.netloc)
            THEN S3UrlParts(Split(parts.netloc, ".", -1)[1], LStripSlash(parts.path))
       ELSE InvalidUrl(u)

\* f"s3://{bucket}/{key}"
make_s3_url(bucket, key) == SchemeS3 \o <<":", "/", "/">> \o bucket \o <<"/">> \o key

\* f"https://{bucket}.s3.{aws_region}.amazonaws.com/{key}"
make_https_url(bucket, key, aws_region) ==
    SchemeHttps \o <<":", "/", "/">> \o bucket \o DotS3Dot \o aws_region
        \o DotAmazonawsCom \o <<"/">> \o key

\* The inputs: bucket names (plain, dotted, starting with "s3-"), keys (empty,
\* plain, nested, with a "?", with a leading "/"), regions.
BucketNames == {<<"b">>, <<"m", "y", ".", "b">>, <<"s", "3", "-", "b">>}
KeyNames ==
    {<<>>, <<"k">>, <<"a", "/", "b">>, <<"k", "?", "x">>, <<"/", "k">>}
Regions == {<<"e", "u">>, <<"u", "s">>}

\* URLs given to the parser directly: scheme, "://", authority, path.
InputSchemes == {SchemeS3, SchemeHttps, <<"f", "t", "p">>, <<"S", "3">>}
InputHosts ==
    {b \o DotS3AmazonawsCom : b \in BucketNames}
    \cup {b \o DotS3Dot \o r \o DotAmazonawsCom : b \in BucketNames, r \in Regions}
    \cup {S3Dash \o r \o DotAmazonawsCom : r \in Regions}
    \cup {b \o DotAmazonawsCom : b \in BucketNames}
    \cup {<<"g", "o", "o", "g", "l", "e", ".", "c", "o", "m">>,
          <<"b">>}
InputPaths ==
    {<<>>, <<"/">>, <<"/", "k">>, <<"/", "b">>, <<"/", "b", "/">>,
     <<"/", "b", "/", "k">>, <<"/", "b", "/", "/", "k">>, <<"/", "k", "?", "q">>}
InputUrls ==
    {sc \o <<":", "/", "/">> \o h \o p :
        sc \in InputSchemes, h \in InputHosts, p \in InputPaths}

NoInput == [bucket |-> <<>>, key |-> <<>>, region |-> <<>>]

UrlInit ==
    /\ urlPc = "input"
    /\ urlIn = NoInput
    /\ urlBuilder = "none"
    /\ url = <<>>
    /\ urlOut = NotParsed

\* a caller has a URL string
UrlGiven ==
    /\ UNCHANGED urlOthers
    /\ urlPc = "input"
    /\ \E u \in InputUrls : url' = u
    /\ urlPc' = "built"
    /\ UNCHANGED <<urlIn, urlBuilder, urlOut>>

\* a caller builds the URL with make_s3_url
UrlMakeS3 ==
    /\ UNCHANGED urlOthers
    /\ urlPc = "input"
    /\ \E b \in BucketNames, k \in KeyNames :
        /\ urlIn' = [bucket |-> b, key |-> k, region |-> <<>>]
        /\ url' = make_s3_url(b, k)
    /\ urlBuilder' = "s3"
    /\ urlPc' = "built"
    /\ UNCHANGED urlOut

\* a caller builds the URL with make_https_url
UrlMakeHttps ==
    /\ UNCHANGED urlOthers
    /\ urlPc = "input"
    /\ \E b \in BucketNames, k \in KeyNames, r \in Regions :
        /\ urlIn' = [bucket |-> b, key |-> k, region |-> r]
        /\ url' = make_https_url(b, k, r)
    /\ urlBuilder' = "https"
    /\ urlPc' = "built"
    /\ UNCHANGED urlOut

\* the URL is parsed
UrlParse ==
    /\ UNCHANGED urlOthers
    /\ urlPc = "built"
    /\ urlOut' = parse_s3_url(url)
    /\ urlPc' = "parsed"
    /\ UNCHANGED <<urlIn, urlBuilder, url>>

UrlNext == UrlGiven \/ UrlMakeS3 \/ UrlMakeHttps \/ UrlParse

(***************************************************************************)
(* upload_dir.  A path is a sequence of names and "/" separators.          *)
(***************************************************************************)
Sep == "/"
DirNames == <<"dir1", "dir2", "dir3">>
FileNames == <<"file1.txt", "file2.txt", "file3.txt">>
SourcePaths == {<<".", Sep, "src">>, <<".", Sep, "src", Sep>>}
UploadPrefixes == {<<>>, <<"output">>, <<"output", Sep>>}

\* os.path.join(a, b) for a relative b
Join(a, b) == IF a = <<>> \/ a[Len(a)] = Sep THEN a \o b ELSE a \o <<Sep>> \o b

\* os.path.relpath(path, start) for a path below start
RelPath(path, start) ==
    LET rest == SubSeq(path, Len(start) + 1, Len(path))
    IN IF rest # <<>> /\ Head(rest) = Sep THEN Tail(rest) ELSE rest

\* s3_path = os.path.join(prefix, os.path.relpath(local_path, source_path))
S3PathFromLocal(prefix, local_path, source_path) == Join(prefix, local_path)
S3Path(prefix, local_path, source_path) ==
    Join(prefix, RelPath(local_path, source_path))

UploadCall(local_path, bucket, s3_path) ==
    [op |-> "upload", local |-> local_path, bucket |-> bucket, key |-> s3_path]
ShutdownCall == [op |-> "shutdown", local |-> <<>>, bucket |-> "", key |-> <<>>]

\* What os.walk may yield next: first the top directory, then a directory not
\* yet visited below one already visited.  rel is the list of directory names
\* from the top down to it.
WalkRoots ==
    IF udWalked = <<>> THEN {[root |-> udArgs.source_path, rel |-> <<>>]}
    ELSE {e \in {[root |-> Join(udWalked[i].root, <<DirNames[d]>>),
                  rel |-> Append(udWalked[i].rel, DirNames[d])] :
                     i \in 1 .. Len(udWalked), d \in 1 .. MaxDirs} :
             \A i \in 1 .. Len(udWalked) : udWalked[i].rel # e.rel}
WalkFiles == {SubSeq(FileNames, 1, n) : n \in 0 .. MaxFiles}

UdInit ==
    /\ udPc = "walk"
    /\ udArgs \in [source_path : SourcePaths, bucket : {"test"},
                   prefix : UploadPrefixes]
    /\ udWalked = <<>>
    /\ udFileIdx = 0
    /\ udCalls = <<>>

\* for root, _, files in os.walk(source_path): the next directory
UdWalkDir ==
    /\ UNCHANGED udOthers
    /\ udPc = "walk"
    /\ Len(udWalked) < MaxDirs
    /\ \E r \in WalkRoots, fs \in WalkFiles :
        udWalked' = Append(udWalked, [root |-> r.root, rel |-> r.rel, files |-> fs])
    /\ udFileIdx' = 0
    /\ udPc' = "files"
    /\ UNCHANGED <<udArgs, udCalls>>

\* os.walk is exhausted: the loop ends
UdWalkEnd ==
    /\ UNCHANGED udOthers
    /\ udPc = "walk"
    /\ udPc' = "shutdown"
    /\ UNCHANGED <<udArgs, udWalked, udFileIdx, udCalls>>

\* for filename in files: ... manager.upload(local_path, bucket, s3_path)
UdUpload ==
    /\ UNCHANGED udOthers
    /\ udPc = "files"
    /\ udFileIdx < Len(udWalked[Len(udWalked)].files)
    /\ LET entry == udWalked[Len(udWalked)]
           local_path == Join(entry.root, <<entry.files[udFileIdx + 1]>>)
       IN udCalls' = Append(udCalls,
              UploadCall(local_path, udArgs.bucket,
                         S3Path(udArgs.prefix, local_path, udArgs.source_path)))
    /\ udFileIdx' = udFileIdx + 1
    /\ UNCHANGED <<udPc, udArgs, udWalked>>

\* the files of this directory are done
UdFilesEnd ==
    /\ UNCHANGED udOthers
    /\ udPc = "files"
    /\ udFileIdx = Len(udWalked[Len(udWalked)].files)
    /\ udPc' = "walk"
    /\ UNCHANGED <<udArgs, udWalked, udFileIdx, udCalls>>

\* manager.shutdown()
UdShutdown ==
    /\ UNCHANGED udOthers
    /\ udPc = "shutdown"
    /\ udCalls' = Append(udCalls, ShutdownCall)
    /\ udPc' = "return"
    /\ UNCHANGED <<udArgs, udWalked, udFileIdx>>

\* shutdown has returned: upload_dir returns
UdReturn ==
    /\ UNCHANGED udOthers
    /\ udPc = "return"
    /\ udPc' = "returned"
    /\ UNCHANGED <<udArgs, udWalked, udFileIdx, udCalls>>

UdNext == UdWalkDir \/ UdWalkEnd \/ UdUpload \/ UdFilesEnd \/ UdShutdown \/ UdReturn

(***************************************************************************)
(* _get_client, under functools.lru_cache, called by operations running in *)
(* several threads.  The cache is looked up before the wrapped function is *)
(* called and filled after it has returned; the call itself runs with no   *)
(* lock held.                                                              *)
(***************************************************************************)
Threads == 1 .. NThreads
EmptyCache == <<>>
ExplicitClient == <<"explicit">>
NoLocal == [inst |-> <<>>, doneAtStart |-> FALSE]

GcInit ==
    /\ gcPc = [t \in Threads |-> "idle"]
    /\ gcCache = EmptyCache
    /\ gcBuilt = 0
    /\ gcLocal = [t \in Threads |-> NoLocal]
    /\ gcDone = FALSE
    /\ gcCalls = {}
    /\ gcLeft = [t \in Threads |-> MaxOps]

\* the cache lookup of the lru_cache wrapper
CacheNeverHits(cache) == FALSE
CacheHit(cache) == cache # EmptyCache

GcCall(t, explicit, client, constructed, doneAtStart) ==
    [thread |-> t, explicit |-> explicit, client |-> client,
     constructed |-> constructed, doneAtStart |-> doneAtStart]

\* client = client or _get_client(), with a client given
GcExplicit(t) ==
    /\ UNCHANGED gcOthers
    /\ gcPc[t] = "idle"
    /\ gcLeft[t] > 0
    /\ gcLeft' = [gcLeft EXCEPT ![t] = @ - 1]
    /\ gcCalls' = gcCalls \cup {GcCall(t, TRUE, ExplicitClient, FALSE, gcDone)}
    /\ UNCHANGED <<gcPc, gcCache, gcBuilt, gcLocal, gcDone>>

\* client = client or _get_client(), with no client given: the cache lookup
GcLookup(t) ==
    /\ UNCHANGED gcOthers
    /\ gcPc[t] = "idle"
    /\ gcLeft[t] > 0
    /\ gcLeft' = [gcLeft EXCEPT ![t] = @ - 1]
    /\ IF CacheHit(gcCache)
       THEN /\ gcCalls' = gcCalls \cup {GcCall(t, FALSE, gcCache, FALSE, gcDone)}
            /\ gcDone' = TRUE
            /\ UNCHANGED <<gcPc, gcLocal>>
       ELSE /\ gcPc' = [gcPc EXCEPT ![t] = "miss"]
            /\ gcLocal' = [gcLocal EXCEPT ![t] = [inst |-> <<>>, doneAtStart |-> gcDone]]
            /\ UNCHANGED <<gcCalls, gcDone>>
    /\ UNCHANGED <<gcCache, gcBuilt>>

\* return boto3.client("s3"): a new instance
GcBuild(t) ==
    /\ UNCHANGED gcOthers
    /\ gcPc[t] = "miss"
    /\ gcBuilt' = gcBuilt + 1
    /\ gcLocal' = [gcLocal EXCEPT ![t].inst = <<"client", gcBuilt + 1>>]
    /\ gcPc' = [gcPc EXCEPT ![t] = "built"]
    /\ UNCHANGED <<gcCache, gcDone, gcCalls, gcLeft>>

\* the wrapper stores the result unless the key was added meanwhile, and
\* returns the result of its own call
GcStore(t) ==
    /\ UNCHANGED gcOthers
    /\ gcPc[t] = "built"
    /\ gcCache' = IF gcCache = EmptyCache THEN gcLocal[t].inst ELSE gcCache
    /\ gcCalls' = gcCalls \cup
           {GcCall(t, FALSE, gcLocal[t].inst, TRUE, gcLocal[t].doneAtStart)}
    /\ gcDone' = TRUE
    /\ gcLocal' = [gcLocal EXCEPT ![t] = NoLocal]
    /\ gcPc' = [gcPc EXCEPT ![t] = "idle"]
    /\ UNCHANGED <<gcBuilt, gcLeft>>

GcNext ==
    \E t \in Threads : GcExplicit(t) \/ GcLookup(t) \/ GcBuild(t) \/ GcStore(t)

(***************************************************************************)
(* The specifications.                                                     *)
(***************************************************************************)
IkIdle ==
    /\ ikPc = "idle" /\ ikRunning = FALSE
    /\ ikArgs = [bucket |-> "", prefix |-> "", max_keys |-> 0]
    /\ kwargs = [Bucket |-> "", Prefix |-> "", ContinuationToken |-> NoToken]
    /\ key_count = 0 /\ resp = NoPage /\ ikIdx = 0 /\ requests = <<>>
    /\ responses = <<>> /\ emitted = <<>> /\ pulls = 0
SoIdle ==
    /\ soPc = "idle" /\ soArgs = [src |-> NoRef, dest |-> NoRef]
    /\ soDest = NoOutcome /\ soSrc = NoOutcome /\ soCalls = <<>> /\ soRaised = "none"
UrlIdle ==
    /\ urlPc = "idle" /\ urlIn = NoInput /\ urlBuilder = "none" /\ url = <<>>
    /\ urlOut = NotParsed
UdIdle ==
    /\ udPc = "idle"
    /\ udArgs = [source_path |-> <<>>, bucket |-> "", prefix |-> <<>>]
    /\ udWalked = <<>> /\ udFileIdx = 0 /\ udCalls = <<>>
GcIdle ==
    /\ gcPc = [t \in Threads |-> "unused"] /\ gcCache = EmptyCache /\ gcBuilt = 0
    /\ gcLocal = [t \in Threads |-> NoLocal] /\ gcDone = FALSE /\ gcCalls = {}
    /\ gcLeft = [t \in Threads |-> 0]

InitIter == IkInit /\ SoIdle /\ UrlIdle /\ UdIdle /\ GcIdle
NextIter == IkNext
SpecIter == InitIter /\ [][NextIter]_vars

InitSync == SoInit /\ IkIdle /\ UrlIdle /\ UdIdle /\ GcIdle
NextSync == SoNext
SpecSync == InitSync /\ [][NextSync]_vars

InitUrl == UrlInit /\ IkIdle /\ SoIdle /\ UdIdle /\ GcIdle
NextUrl == UrlNext
SpecUrl == InitUrl /\ [][NextUrl]_vars

InitUpload == UdInit /\ IkIdle /\ SoIdle /\ UrlIdle /\ GcIdle
NextUpload == UdNext
SpecUpload == InitUpload /\ [][NextUpload]_vars

InitClient == GcInit /\ IkIdle /\ SoIdle /\ UrlIdle /\ UdIdle
NextClient == GcNext
SpecClient == InitClient /\ [][NextClient]_vars

\* Any one of the operations.
Init == InitIter \/ InitSync \/ InitUrl \/ InitUpload \/ InitClient
Next == NextIter \/ NextSync \/ NextUrl \/ NextUpload \/ NextClient
Spec == Init /\ [][Next]_vars

(***************************************************************************)
(* Properties of iter_keys (SpecIter).                                     *)
(***************************************************************************)
\* the records of the pages that report a positive KeyCount, in order
RECURSIVE ExpectedRecords(_)
ExpectedRecords(pages) ==
    IF pages = <<>> THEN <<>>
    ELSE (IF Head(pages).KeyCount = 0 THEN <<>> ELSE Head(pages).Contents)
         \o ExpectedRecords(Tail(pages))

IsPrefix(a, b) == Len(a) <= Len(b) /\ SubSeq(b, 1, Len(a)) = a

\* C1: with a positive max_keys, iter_keys emits at most max_keys records,
\* and makes no list_objects_v2 request once max_keys records are emitted.
C1_CapRespected ==
    ikArgs.max_keys > 0 =>
        /\ Len(emitted) <= ikArgs.max_keys
        /\ \A i \in 1 .. Len(requests) : requests[i].emitted < ikArgs.max_keys

\* C2: with no max_keys, the generator requests pages up to the first page p
\* with KeyCount = 0 or IsTruncated = false and no further; it emits the
\* records of the pages 1..p that have KeyCount > 0 in page and in-page
\* order, and once consumed it has made exactly p requests.
C2_UncappedListing ==
    ikArgs.max_keys = 0 =>
        /\ \A i \in 1 .. Len(responses) - 1 : ~IsFinal(responses[i])
        /\ Len(requests) = Len(responses)
        /\ IsPrefix(emitted, ExpectedRecords(responses))
        /\ ikPc = "ended" =>
            /\ responses # <<>>
            /\ IsFinal(responses[Len(responses)])
            /\ emitted = ExpectedRecords(responses)
            /\ (responses[1].KeyCount = 0 => emitted = <<>> /\ Len(requests) = 1)

C2_Witness ==
    /\ ikArgs.max_keys = 0
    /\ ikPc = "ended"
    /\ Len(requests) = 3
    /\ Len(emitted) >= 3
    /\ responses[3].KeyCount = 0 /\ responses[3].Contents # <<>>

\* C10 (the request log): the first request carries the bucket and the prefix and no token;
\* every later request carries the same bucket and prefix and the
\* NextContinuationToken of the response before it, which reported
\* IsTruncated with KeyCount > 0; every request is made while the consumer is
\* pulling for a record beyond those delivered (with no max_keys: beyond all
\* records of the pages before), none before the first pull, none after the
\* sequence has ended.
C10_RequestsOk ==
    /\ pulls = 0 => requests = <<>>
    /\ \A i \in 1 .. Len(requests) :
        LET q == requests[i] IN
        /\ q.kwargs.Bucket = ikArgs.bucket
        /\ q.kwargs.Prefix = ikArgs.prefix
        /\ q.pulls > q.emitted
        /\ i = 1 => q.kwargs.ContinuationToken = NoToken
        /\ i > 1 =>
            /\ q.kwargs.ContinuationToken = responses[i - 1].NextContinuationToken
            /\ responses[i - 1].IsTruncated
            /\ responses[i - 1].KeyCount > 0
            /\ ikArgs.max_keys = 0 =>
                   q.emitted = Len(ExpectedRecords(SubSeq(responses, 1, i - 1)))

SoTerminal == soPc \in {"returned", "raised"}
SoCopies == {i \in 1 .. Len(soCalls) : soCalls[i].op = "copy"}
SoHeads == {i \in 1 .. Len(soCalls) : soCalls[i].op = "head_object"}
\* the destination does not exist, as the code sees it: head_object on it
\* raised ClientError
SoDestAbsent == soDest.kind = "ClientError"
SoBothFetched == soDest.kind = "ok" /\ soSrc.kind = "ok"

\* C3: sync_object invokes copy(source -> destination), exactly once, if and
\* only if the destination does not exist or the source's LastModified is
\* strictly greater than the destination's; when it is less or equal, the
\* call returns with copy never invoked.
C3_CopyIffNewer ==
    SoTerminal =>
        /\ Cardinality(SoCopies) <= 1
        /\ \A i \in SoCopies : soCalls[i] = CopyCall(soArgs.src, soArgs.dest)
        /\ SoCopies # {} <=>
              \/ SoDestAbsent
              \/ SoBothFetched /\ soSrc.LastModified > soDest.LastModified
        /\ SoBothFetched /\ soSrc.LastModified <= soDest.LastModified =>
              soPc = "returned" /\ SoCopies = {}

C3_Witness ==
    /\ soPc = "returned"
    /\ SoBothFetched
    /\ soSrc.LastModified = soDest.LastModified
    /\ SoCopies = {}
    /\ soArgs.src # soArgs.dest

\* C4 as stated: every failure of the destination fetch, whatever its kind,
\* is not propagated, the source is not fetched and the copy is attempted.
C4_AnyFailureSwallowed ==
    SoTerminal /\ soDest.kind # "ok" =>
        /\ soRaised # "head_dest"
        /\ Cardinality(SoHeads) = 1
        /\ SoCopies # {}

\* C4 as amended: a destination fetch that raises ClientError, whatever the
\* error code, is not propagated, the source is not fetched and the copy is
\* attempted; a destination fetch that raises anything else propagates, with
\* no source fetch and no copy.
C4_ClientErrorSwallowed ==
    SoTerminal =>
        /\ soDest.kind = "ClientError" =>
              /\ soRaised # "head_dest"
              /\ Cardinality(SoHeads) = 1
              /\ Cardinality(SoCopies) = 1
        /\ soDest.kind \notin {"ok", "ClientError"} =>
              /\ soPc = "raised" /\ soRaised = "head_dest"
              /\ soCalls = <<HeadCall(soArgs.dest)>>

C4_Witness ==
    /\ soPc = "returned"
    /\ soDest.kind = "ClientError" /\ soDest.code = "403"
    /\ SoCopies # {}

(***************************************************************************)
(* Properties of the URL functions (SpecUrl).                              *)
(***************************************************************************)
UrlParts == UrlSplit(url)
NoChar(sq, c) == \A i \in 1 .. Len(sq) : sq[i] # c

\* C5: an https URL whose authority contains ".s3." parses as virtual-hosted
\* style: the container is the authority up to ".s3." and the key is the path
\* without its leading slash.
C5_S3AuthorityIsVirtualHosted ==
    urlPc = "parsed" /\ UrlParts.scheme = SchemeHttps
                     /\ Contains(UrlParts.netloc, DotS3Dot) =>
        urlOut = S3UrlParts(RSplitHead(UrlParts.netloc, DotS3Dot),
                            LStripSlash(UrlParts.path))

\* C6: for a bucket name of lowercase letters, digits, hyphens and dots and a
\* key with no "?", no "#" and no leading "/", parsing what make_s3_url or
\* make_https_url built gives back exactly (bucket, key).
C6_RoundTrip ==
    /\ urlPc = "parsed"
    /\ urlBuilder # "none"
    /\ NoChar(urlIn.key, "?") /\ NoChar(urlIn.key, "#")
    /\ ~StartsWith(urlIn.key, <<"/">>)
    => urlOut = S3UrlParts(urlIn.bucket, urlIn.key)

\* C7: parse_s3_url fails exactly when the scheme is neither s3 nor https, or
\* it is https and the authority matches none of the three patterns; every
\* failure is the invalid-URL error carrying the URL.
C7_FailsExactlyOnUnrecognized ==
    urlPc = "parsed" =>
        LET unrecognized ==
                \/ UrlParts.scheme \notin {SchemeS3, SchemeHttps}
                \/ /\ UrlParts.scheme = SchemeHttps
                   /\ ~IsVirtualHosted(UrlParts.netloc)
                   /\ ~IsRegionPath(UrlParts.netloc)
                   /\ ~IsGenericHost(UrlParts.netloc)
        IN /\ urlOut.kind = "ValueError" <=> unrecognized
           /\ urlOut.kind = "ValueError" => urlOut = InvalidUrl(url)
           /\ ~unrecognized => urlOut.kind = "ok"

(***************************************************************************)
(* Properties of upload_dir (SpecUpload).                                  *)
(***************************************************************************)
\* names joined by separators
RECURSIVE PathOf(_)
PathOf(names) ==
    IF Len(names) <= 1 THEN names
    ELSE <<Head(names), Sep>> \o PathOf(Tail(names))

\* the upload expected for the k-th file of a walk entry
ExpectedUpload(e, k) ==
    UploadCall(Join(e.root, <<e.files[k]>>), udArgs.bucket,
               Join(udArgs.prefix, PathOf(Append(e.rel, e.files[k]))))

\* the uploads expected for the first n entries, the last one up to file k
RECURSIVE ExpectedUploads(_, _)
ExpectedUploads(n, k) ==
    IF n = 0 THEN <<>>
    ELSE ExpectedUploads(n - 1, IF n = 1 THEN 0 ELSE Len(udWalked[n - 1].files))
         \o [j \in 1 .. k |-> ExpectedUpload(udWalked[n], j)]

UdShutdowns == {i \in 1 .. Len(udCalls) : udCalls[i].op = "shutdown"}
UdUploads == SelectSeq(udCalls, LAMBDA c : c.op = "upload")

\* C8: upload_dir submits exactly one upload per file, in walk order, with the
\* key the prefix joined with the file's path relative to the tree root; every
\* submission precedes the single shutdown call, and upload_dir returns only
\* after shutdown.
C8_UploadsThenShutdown ==
    /\ UdUploads = ExpectedUploads(Len(udWalked), udFileIdx)
    /\ Cardinality(UdShutdowns) <= 1
    /\ \A i \in UdShutdowns : i = Len(udCalls)
    /\ udPc \in {"return", "returned"} <=> UdShutdowns # {}
    /\ udPc \in {"shutdown", "return", "returned"} /\ udWalked # <<>> =>
          udFileIdx = Len(udWalked[Len(udWalked)].files)

C8_Witness ==
    /\ udPc = "returned"
    /\ Len(udWalked) = 2
    /\ Len(UdUploads) = 3
    /\ udArgs.prefix = <<"output">>
    /\ udCalls[Len(udCalls)] = ShutdownCall

(***************************************************************************)
(* Properties of _get_client (SpecClient).                                 *)
(***************************************************************************)
GcDefaultCalls == {c \in gcCalls : ~c.explicit}

\* C9 as stated: the client is constructed at most once and every call of
\* _get_client returns the same instance, in any interleaving; an operation
\* given an explicit client constructs nothing.
C9_OneClientEver ==
    /\ gcBuilt <= 1
    /\ \A c, d \in GcDefaultCalls : c.client = d.client
    /\ \A c \in gcCalls : c.explicit => ~c.constructed

\* C9 as amended: every call of _get_client that starts after some call of it
\* has returned constructs nothing and returns the one cached instance; only
\* calls that overlap the first ones construct, at most once per thread; an
\* operation given an explicit client constructs nothing.
C9_OneClientOnceCached ==
    /\ \A c \in GcDefaultCalls :
          c.doneAtStart => ~c.constructed /\ c.client = gcCache
    /\ gcDone => gcCache # EmptyCache
    /\ gcBuilt <= NThreads
    /\ GcDefaultCalls = {} /\ (\A t \in Threads : gcPc[t] = "idle") => gcBuilt = 0
    /\ \A c \in gcCalls :
          c.explicit => ~c.constructed /\ c.client = ExplicitClient

C9_Witness ==
    /\ gcBuilt = 2
    /\ \E c \in GcDefaultCalls : c.doneAtStart
    /\ \E c \in gcCalls : c.explicit

====
